---- MODULE Spec2Model ----
(***************************************************************************)
(* Model of the chunked extraction pipeline of the AI web scraper          *)
(* (src/ai_service.py): input validation, the chunker, the per-chunk       *)
(* oracle loop, result aggregation and the confidence score.               *)
(*                                                                         *)
(* Text is a sequence of one-character strings, so that length, trimming,  *)
(* splitting and joining are computed the way Python's str computes them.  *)
(***************************************************************************)
EXTENDS Integers, Sequences, FiniteSets, TLC

VARIABLES
    CHUNK_SIZE,         \* config.CHUNK_SIZE, read from the environment at import
    content,            \* extract_content's argument
    instructions,       \* extract_content's argument
    pc,                 \* position inside extract_content / the chunker run
    chunks,             \* local `chunks`
    results,            \* local `results`
    successful_chunks,  \* local `successful_chunks`
    combined_result,    \* local `combined_result`
    result,             \* the dictionary extract_content returned
    oracle_log,         \* history: one entry per chain.invoke call
    exc,                \* history: where an exception escaped to the outer handler
    \* ProfessionalScrapingService._assess_structure_quality
    analysis,           \* the argument `analysis`
    score,              \* local `score`
    structure_quality,  \* the label returned
    qpc,                \* position inside _assess_structure_quality
    \* ProfessionalScrapingService.scrape_website
    url,                \* argument `url`
    use_selenium,       \* argument `use_selenium`
    extract_links_arg,  \* argument `extract_links`
    extract_images_arg, \* argument `extract_images`
    spc,                \* position inside scrape_website
    ops,                \* history: the collaborators scrape_website has run
    raw_content,        \* local `raw_content`
    dom_analysis,       \* local `dom_analysis`
    cleaned_content,    \* local `cleaned_content`
    extracted_links,    \* local `extracted_links`
    extracted_images,   \* local `extracted_images`
    scrape_result,      \* the dictionary scrape_website returned
    \* AdvancedWebScrapingService.scrape_multiple_urls
    urls,               \* argument `urls`
    max_concurrent,     \* argument `max_concurrent`
    semaphore,          \* the value of the asyncio.Semaphore
    task,               \* position of each scrape_single task
    task_outcome,       \* what each task returned
    completion,         \* history: the tasks in the order they finished
    gathered,           \* the list asyncio.gather returned
    bpc,                \* position inside scrape_multiple_urls
    \* ProfessionalScrapingService._scrape_with_selenium
    dpc,                \* position inside _scrape_with_selenium
    driver,             \* the browser driver: not created, running, or quit
    quit_calls,         \* history: the number of driver.quit() calls
    outcome_pending,    \* the return value or exception set aside while `finally` runs
    reached_caller,     \* what the caller got: the page source or an exception
    \* _clean_content, extract_links and extract_images on one document
    html_content,       \* argument `html_content`, as the parser reads it
    hpc,                \* which of the three functions have run
    found_links,        \* the list extract_links returned
    found_images,       \* the list extract_images returned
    clean_text          \* the text _clean_content returned

extract_vars == <<CHUNK_SIZE, content, instructions, pc, chunks, results,
                  successful_chunks, combined_result, result, oracle_log, exc>>
quality_vars == <<analysis, score, structure_quality, qpc>>
site_vars == <<url, use_selenium, extract_links_arg, extract_images_arg, spc, ops,
               raw_content, dom_analysis, cleaned_content, extracted_links,
               extracted_images, scrape_result>>
batch_vars == <<urls, max_concurrent, semaphore, task, task_outcome, completion,
                gathered, bpc>>

selenium_vars == <<dpc, driver, quit_calls, outcome_pending, reached_caller>>
html_vars == <<html_content, hpc, found_links, found_images, clean_text>>

vars == <<extract_vars, quality_vars, site_vars, batch_vars, selenium_vars, html_vars>>

\* the parts of the state a run of another operation leaves untouched
IdleExtract ==
    /\ CHUNK_SIZE = 1 /\ content = <<>> /\ instructions = <<>> /\ pc = "idle"
    /\ chunks = <<>> /\ results = <<>> /\ successful_chunks = 0
    /\ combined_result = <<>> /\ result = [pending |-> TRUE] /\ oracle_log = <<>>
    /\ exc = "none"
IdleQuality == analysis = <<>> /\ score = 0 /\ structure_quality = "" /\ qpc = "idle"
IdleSite ==
    /\ url = <<>> /\ use_selenium = FALSE
    /\ extract_links_arg = FALSE /\ extract_images_arg = FALSE
    /\ spc = "idle" /\ ops = <<>> /\ raw_content = "" /\ dom_analysis = <<>>
    /\ cleaned_content = "" /\ extracted_links = <<>> /\ extracted_images = <<>>
    /\ scrape_result = <<>>
IdleSelenium ==
    /\ dpc = "idle" /\ driver = "none" /\ quit_calls = 0
    /\ outcome_pending = [kind |-> "none"] /\ reached_caller = [kind |-> "none"]
IdleHtml ==
    /\ html_content = <<>> /\ hpc = "idle" /\ found_links = <<>>
    /\ found_images = <<>> /\ clean_text = <<>>
IdleBatch ==
    /\ urls = <<>> /\ max_concurrent = 0 /\ semaphore = 0
    /\ task = <<>> /\ task_outcome = <<>> /\ completion = <<>> /\ gathered = <<>>
    /\ bpc = "idle"

----------------------------------------------------------------------------
(* Bounds of the model *)

\* longest content handed to the chunker on its own
MaxLen == 7
\* longest content handed to extract_content
MaxContentLen == 7
\* largest configured chunk size
MaxChunkSize == 2

\* characters of the contents given to the chunker
Chars == {"a", " ", "\n", "."}
\* characters of the contents given to extract_content
ExtractChars == {"a", "\n"}

----------------------------------------------------------------------------
(* Python str primitives *)

\* str.isspace for one character
IsSpace(c) == c \in {" ", "\n"}

\* all texts over alphabet A of length at most n
Texts(A, n) == UNION {[1..k -> A] : k \in 0..n}

\* s.strip()
strip(s) ==
    LET keep == {k \in 1..Len(s) : ~IsSpace(s[k])}
    IN  IF keep = {} THEN <<>>
        ELSE LET lo == CHOOSE k \in keep : \A j \in keep : k <= j
                 hi == CHOOSE k \in keep : \A j \in keep : k >= j
             IN  SubSeq(s, lo, hi)

\* s.find(sep) + 1: the first (1-based) position of sep in s, 0 when absent
find(s, sep) ==
    LET at == {k \in 1..(Len(s) - Len(sep) + 1) : SubSeq(s, k, k + Len(sep) - 1) = sep}
    IN  IF at = {} THEN 0 ELSE CHOOSE k \in at : \A j \in at : k <= j

\* s.split(sep): left to right, non-overlapping, empty pieces kept
RECURSIVE split(_, _)
split(s, sep) ==
    LET k == find(s, sep)
    IN  IF k = 0 THEN <<s>>
        ELSE <<SubSeq(s, 1, k - 1)>> \o split(SubSeq(s, k + Len(sep), Len(s)), sep)

\* sep.join(items)
RECURSIVE join(_, _)
join(sep, items) ==
    IF items = <<>> THEN <<>>
    ELSE IF Len(items) = 1 THEN items[1]
    ELSE items[1] \o sep \o join(sep, Tail(items))

ParagraphSep == <<"\n", "\n">>
SentenceSep == <<".", " ">>

----------------------------------------------------------------------------
(* The chunker *)

\* the greedy loop over paragraphs and the final append
RECURSIVE ParagraphLoop(_, _, _)
ParagraphLoop(paragraphs, acc, current_chunk) ==
    IF paragraphs = <<>>
    THEN IF strip(current_chunk) # <<>> THEN Append(acc, strip(current_chunk)) ELSE acc
    ELSE LET paragraph == Head(paragraphs)
         IN  IF Len(current_chunk) + Len(paragraph) > CHUNK_SIZE /\ current_chunk # <<>>
             THEN ParagraphLoop(Tail(paragraphs), Append(acc, strip(current_chunk)), paragraph)
             ELSE ParagraphLoop(Tail(paragraphs), acc,
                                IF current_chunk # <<>>
                                THEN current_chunk \o ParagraphSep \o paragraph
                                ELSE paragraph)

\* the greedy loop over sentences and the final append
RECURSIVE SentenceLoop(_, _, _)
SentenceLoop(sentences, acc, current_chunk) ==
    IF sentences = <<>>
    THEN IF strip(current_chunk) # <<>> THEN Append(acc, strip(current_chunk)) ELSE acc
    ELSE LET sentence == Head(sentences)
         IN  IF Len(current_chunk) + Len(sentence) > CHUNK_SIZE /\ current_chunk # <<>>
             THEN SentenceLoop(Tail(sentences), Append(acc, strip(current_chunk)), sentence)
             ELSE SentenceLoop(Tail(sentences), acc,
                               IF current_chunk # <<>>
                               THEN current_chunk \o SentenceSep \o sentence
                               ELSE sentence)

_split_by_sentences(c) == SentenceLoop(split(c, SentenceSep), <<>>, <<>>)

\* the chunks of the paragraph pass, before the fallback test
ParagraphPass(c) == ParagraphLoop(split(c, ParagraphSep), <<>>, <<>>)

\* the test that sends the content to the sentence fallback
StillTooLarge(cs) == Len(cs) = 1 /\ Len(cs[1]) > CHUNK_SIZE

_intelligent_chunking(c) ==
    IF Len(c) <= CHUNK_SIZE THEN <<c>>
    ELSE IF StillTooLarge(ParagraphPass(c)) THEN _split_by_sentences(c)
    ELSE ParagraphPass(c)

----------------------------------------------------------------------------
(* A run of the chunker alone, over every text of the bounded alphabet *)

NoResult == [pending |-> TRUE]

InitChunk ==
    /\ CHUNK_SIZE \in 1..MaxChunkSize
    /\ content \in Texts(Chars, MaxLen)
    /\ instructions = <<>>
    /\ pc = "chunker_call"
    /\ chunks = <<>>
    /\ results = <<>>
    /\ successful_chunks = 0
    /\ combined_result = <<>>
    /\ result = NoResult
    /\ oracle_log = <<>>
    /\ exc = "none"
    /\ IdleQuality /\ IdleSite /\ IdleBatch /\ IdleSelenium /\ IdleHtml

ChunkerRun ==
    /\ pc = "chunker_call"
    /\ chunks' = _intelligent_chunking(content)
    /\ pc' = "chunker_return"
    /\ UNCHANGED <<CHUNK_SIZE, content, instructions, results, successful_chunks,
                   combined_result, result, oracle_log, exc>>
    /\ UNCHANGED <<quality_vars, site_vars, batch_vars, selenium_vars, html_vars>>

NextChunk == ChunkerRun

SpecChunk == InitChunk /\ [][NextChunk]_vars

----------------------------------------------------------------------------
(* The extraction orchestrator *)

AI_MODEL == "llama3.2:1b"

\* the answer the prompt asks the oracle for when nothing matches, and the
\* text _combine_results returns when no chunk output survives
Sentinel ==
    <<"N", "o", " ", "r", "e", "l", "e", "v", "a", "n", "t", " ",
      "d", "a", "t", "a", " ", "f", "o", "u", "n", "d">>

\* what one chain.invoke call can do: return a text, or raise
OracleTexts == {<<>>, <<" ">>, <<"A">>, <<"B">>, <<"A", " ">>, Sentinel}
OracleOutcomes ==
    [kind : {"text"}, text : OracleTexts] \cup {[kind |-> "raise", text |-> <<>>]}

\* a confidence value, kept as the exact fraction num / den
Fraction(n, d) == [num |-> n, den |-> d]

\* variant: the error result carries a metadata map as well
_create_error_result_with_metadata(error_message) ==
    [success |-> FALSE,
     content |-> <<>>,
     error |-> error_message,
     confidence |-> Fraction(0, 1),
     processing_time |-> "elapsed",
     chunks_processed |-> 0,
     successful_chunks |-> 0,
     model_used |-> AI_MODEL,
     metadata |-> [content_length |-> 0,
                   chunk_size |-> CHUNK_SIZE,
                   temperature |-> "AI_TEMPERATURE"]]

_create_error_result(error_message) ==
    [success |-> FALSE,
     content |-> <<>>,
     error |-> error_message,
     confidence |-> Fraction(0, 1),
     processing_time |-> "elapsed",
     chunks_processed |-> 0,
     successful_chunks |-> 0,
     model_used |-> AI_MODEL]

\* the value _process_chunk returns for one outcome of chain.invoke
_process_chunk(outcome) ==
    IF outcome.kind = "raise" THEN <<>> ELSE strip(outcome.text)

\* variant: the oracle's "nothing found" answer is filtered out as well
ValidResults_dropSentinel(rs) ==
    SelectSeq(rs, LAMBDA r : r # <<>> /\ strip(r) # <<>> /\ r # Sentinel)

\* results without the empty and the whitespace-only entries
ValidResults(rs) == SelectSeq(rs, LAMBDA r : r # <<>> /\ strip(r) # <<>>)

\* variant: the seen-set test is missing, duplicates survive
UniqueResults_nodedup(rs, seen) == rs

\* the seen-set loop: one copy of each entry, at its first occurrence
RECURSIVE UniqueResults(_, _)
UniqueResults(rs, seen) ==
    IF rs = <<>> THEN <<>>
    ELSE IF Head(rs) \in seen THEN UniqueResults(Tail(rs), seen)
    ELSE <<Head(rs)>> \o UniqueResults(Tail(rs), seen \cup {Head(rs)})

\* variant: no sentinel, an empty join when nothing survives
_combine_results_nosentinel(rs) ==
    join(ParagraphSep, UniqueResults(ValidResults(rs), {}))

_combine_results(rs) ==
    IF ValidResults(rs) = <<>> THEN Sentinel
    ELSE join(ParagraphSep, UniqueResults(ValidResults(rs), {}))

\* variant: every appended result is counted
CountsAsSuccessful_any(r) == TRUE

\* whether the loop body counts a chunk's result as successful
CountsAsSuccessful(r) == strip(r) # <<>>

\* variant: floor division
Confidence_floor(cs, successful) ==
    IF cs # <<>> THEN [num |-> successful \div Len(cs), den |-> 1]
    ELSE [num |-> 0, den |-> 1]

\* the confidence score
Confidence(cs, successful) ==
    IF cs # <<>> THEN Fraction(successful, Len(cs)) ELSE Fraction(0, 1)

\* variant: success reported only when some chunk succeeded
SuccessResult_needs_success(c, cs, combined, successful) ==
    [success |-> successful > 0,
     content |-> combined,
     confidence |-> Confidence(cs, successful),
     processing_time |-> "elapsed",
     chunks_processed |-> Len(cs),
     successful_chunks |-> successful,
     model_used |-> AI_MODEL,
     metadata |-> [content_length |-> Len(c),
                   chunk_size |-> CHUNK_SIZE,
                   temperature |-> "AI_TEMPERATURE"]]

\* the dictionary returned on the success path
SuccessResult(c, cs, combined, successful) ==
    [success |-> TRUE,
     content |-> combined,
     confidence |-> Confidence(cs, successful),
     processing_time |-> "elapsed",
     chunks_processed |-> Len(cs),
     successful_chunks |-> successful,
     model_used |-> AI_MODEL,
     metadata |-> [content_length |-> Len(c),
                   chunk_size |-> CHUNK_SIZE,
                   temperature |-> "AI_TEMPERATURE"]]

\* `not s or not s.strip()`
IsBlank(s) == s = <<>> \/ strip(s) = <<>>

Init ==
    /\ CHUNK_SIZE \in 1..MaxChunkSize
    /\ content \in Texts(ExtractChars, MaxContentLen)
    /\ instructions \in {<<>>, <<" ">>, <<"x">>}
    /\ pc = "validate"
    /\ chunks = <<>>
    /\ results = <<>>
    /\ successful_chunks = 0
    /\ combined_result = <<>>
    /\ result = NoResult
    /\ oracle_log = <<>>
    /\ exc = "none"
    /\ IdleQuality /\ IdleSite /\ IdleBatch /\ IdleSelenium /\ IdleHtml

\* variant: the two input checks in the other order
Validate_instructions_first ==
    /\ pc = "validate"
    /\ IF IsBlank(instructions)
       THEN /\ result' = _create_error_result("No extraction instructions provided")
            /\ pc' = "done"
       ELSE IF IsBlank(content)
       THEN /\ result' = _create_error_result("Empty content provided")
            /\ pc' = "done"
       ELSE /\ result' = result
            /\ pc' = "chunking"
    /\ UNCHANGED <<CHUNK_SIZE, content, instructions, chunks, results,
                   successful_chunks, combined_result, oracle_log, exc>>
    /\ UNCHANGED <<quality_vars, site_vars, batch_vars, selenium_vars, html_vars>>

\* the two input checks, content first
Validate ==
    /\ pc = "validate"
    /\ IF IsBlank(content)
       THEN /\ result' = _create_error_result("Empty content provided")
            /\ pc' = "done"
       ELSE IF IsBlank(instructions)
       THEN /\ result' = _create_error_result("No extraction instructions provided")
            /\ pc' = "done"
       ELSE /\ result' = result
            /\ pc' = "chunking"
    /\ UNCHANGED <<CHUNK_SIZE, content, instructions, chunks, results,
                   successful_chunks, combined_result, oracle_log, exc>>
    /\ UNCHANGED <<quality_vars, site_vars, batch_vars, selenium_vars, html_vars>>

Chunking ==
    /\ pc = "chunking"
    /\ chunks' = _intelligent_chunking(content)
    /\ pc' = "loop"
    /\ UNCHANGED <<CHUNK_SIZE, content, instructions, results, successful_chunks,
                   combined_result, result, oracle_log, exc>>
    /\ UNCHANGED <<quality_vars, site_vars, batch_vars, selenium_vars, html_vars>>

\* variant: a chunk whose oracle call raised is submitted a second time
ProcessChunk_retry ==
    /\ pc = "loop"
    /\ Len(results) < Len(chunks)
    /\ \E outcome \in OracleOutcomes :
         LET r == _process_chunk(outcome)
             retried == oracle_log # <<>>
                           /\ oracle_log[Len(oracle_log)].chunk = Len(results) + 1
         IN  /\ oracle_log' = Append(oracle_log,
                    [chunk |-> Len(results) + 1, kind |-> outcome.kind,
                     text |-> outcome.text])
             /\ IF outcome.kind = "raise" /\ ~retried
                THEN UNCHANGED <<results, successful_chunks>>
                ELSE /\ results' = Append(results, r)
                     /\ successful_chunks' =
                            IF CountsAsSuccessful(r) THEN successful_chunks + 1
                            ELSE successful_chunks
    /\ UNCHANGED <<CHUNK_SIZE, content, instructions, pc, chunks, combined_result,
                   result, exc>>
    /\ UNCHANGED <<quality_vars, site_vars, batch_vars, selenium_vars, html_vars>>

\* variant: the first failing oracle call ends the run with an error result
ProcessChunk_abort ==
    /\ pc = "loop"
    /\ Len(results) < Len(chunks)
    /\ \E outcome \in OracleOutcomes :
         LET r == _process_chunk(outcome)
         IN  /\ oracle_log' = Append(oracle_log,
                    [chunk |-> Len(results) + 1, kind |-> outcome.kind,
                     text |-> outcome.text])
             /\ IF outcome.kind = "raise"
                THEN /\ result' = _create_error_result("oracle failure")
                     /\ pc' = "done"
                     /\ UNCHANGED <<results, successful_chunks>>
                ELSE /\ results' = Append(results, r)
                     /\ successful_chunks' =
                            IF CountsAsSuccessful(r) THEN successful_chunks + 1
                            ELSE successful_chunks
                     /\ UNCHANGED <<pc, result>>
    /\ UNCHANGED <<CHUNK_SIZE, content, instructions, chunks, combined_result, exc>>
    /\ UNCHANGED <<quality_vars, site_vars, batch_vars, selenium_vars, html_vars>>

\* one iteration of the chunk loop: one oracle call, its result appended.
\* _process_chunk absorbs every exception of the call itself and returns "",
\* which is also what the loop's own handler appends.
ProcessChunk ==
    /\ pc = "loop"
    /\ Len(results) < Len(chunks)
    /\ \E outcome \in OracleOutcomes :
         LET r == _process_chunk(outcome)
         IN  /\ oracle_log' = Append(oracle_log,
                    [chunk |-> Len(results) + 1, kind |-> outcome.kind,
                     text |-> outcome.text])
             /\ results' = Append(results, r)
             /\ successful_chunks' =
                    IF CountsAsSuccessful(r) THEN successful_chunks + 1
                    ELSE successful_chunks
    /\ UNCHANGED <<CHUNK_SIZE, content, instructions, pc, chunks, combined_result,
                   result, exc>>
    /\ UNCHANGED <<quality_vars, site_vars, batch_vars, selenium_vars, html_vars>>

\* the loop is exhausted: aggregate and return
Finish ==
    /\ pc = "loop"
    /\ Len(results) = Len(chunks)
    /\ combined_result' = _combine_results(results)
    /\ result' = SuccessResult(content, chunks, combined_result', successful_chunks)
    /\ pc' = "done"
    /\ UNCHANGED <<CHUNK_SIZE, content, instructions, chunks, results,
                   successful_chunks, oracle_log, exc>>
    /\ UNCHANGED <<quality_vars, site_vars, batch_vars, selenium_vars, html_vars>>

\* variant: no outer handler, the exception leaves extract_content
OuterException_reraise ==
    /\ \/ pc = "chunking" /\ exc' = "chunking"
       \/ pc = "loop" /\ Len(results) = Len(chunks) /\ exc' = "aggregation"
    /\ pc' = "raised"
    /\ UNCHANGED <<CHUNK_SIZE, content, instructions, chunks, results,
                   successful_chunks, combined_result, result, oracle_log>>
    /\ UNCHANGED <<quality_vars, site_vars, batch_vars, selenium_vars, html_vars>>

\* an exception outside the chunk loop's own handlers reaches the outer
\* handler, which returns an error result carrying its message
OuterException ==
    /\ \/ pc = "chunking" /\ exc' = "chunking"
       \/ pc = "loop" /\ Len(results) = Len(chunks) /\ exc' = "aggregation"
    /\ result' = _create_error_result("exception message")
    /\ pc' = "done"
    /\ UNCHANGED <<CHUNK_SIZE, content, instructions, chunks, results,
                   successful_chunks, combined_result, oracle_log>>
    /\ UNCHANGED <<quality_vars, site_vars, batch_vars, selenium_vars, html_vars>>

Next == Validate \/ Chunking \/ ProcessChunk \/ Finish \/ OuterException

Spec == Init /\ [][Next]_vars

----------------------------------------------------------------------------
(* A run of _combine_results alone, over every bounded non-empty list of    *)
(* chunk outputs (the chunk loop appends one output per chunk)             *)

\* longest list of chunk outputs handed to _combine_results on its own
MaxResults == 4

InitCombine ==
    /\ CHUNK_SIZE \in 1..MaxChunkSize
    /\ content = <<>>
    /\ instructions = <<>>
    /\ pc = "combine_call"
    /\ chunks = <<>>
    /\ results \in UNION {[1..k -> OracleTexts] : k \in 1..MaxResults}
    /\ successful_chunks = 0
    /\ combined_result = <<>>
    /\ result = NoResult
    /\ oracle_log = <<>>
    /\ exc = "none"
    /\ IdleQuality /\ IdleSite /\ IdleBatch /\ IdleSelenium /\ IdleHtml

CombineRun ==
    /\ pc = "combine_call"
    /\ combined_result' = _combine_results(results)
    /\ pc' = "combine_return"
    /\ UNCHANGED <<CHUNK_SIZE, content, instructions, chunks, results,
                   successful_chunks, result, oracle_log, exc>>
    /\ UNCHANGED <<quality_vars, site_vars, batch_vars, selenium_vars, html_vars>>

NextCombine == CombineRun

SpecCombine == InitCombine /\ [][NextCombine]_vars

----------------------------------------------------------------------------
(* Properties of extract_content, checked under Spec *)

\* both inputs passed validation
Validated == ~IsBlank(content) /\ ~IsBlank(instructions)

\* chunk k's oracle call raised
Failed(k) == oracle_log[k].kind = "raise"

\* chunk k's oracle call returned text that is non-empty after trimming
YieldedText(k) == oracle_log[k].kind = "text" /\ strip(oracle_log[k].text) # <<>>

\* two fractions denote the same number
SameValue(a, b) == a.num * b.den = b.num * a.den

\* C1: with non-blank content and instructions, a failing oracle call on a
\* chunk never aborts the run: the failed chunk contributes an empty result,
\* every chunk is still submitted to the oracle, in order, and the call
\* returns one successful result that covers all chunks.
C1_FailureNeverAborts ==
    /\ Len(oracle_log) = Len(results)
    /\ \A k \in 1..Len(oracle_log) : Failed(k) => results[k] = <<>>
    /\ (pc = "done" /\ Validated /\ exc # "chunking") =>
          /\ Len(oracle_log) = Len(chunks)
          /\ \A k \in 1..Len(chunks) : oracle_log[k].chunk = k
    /\ (pc = "done" /\ Validated /\ exc = "none") =>
          /\ result.success
          /\ result.chunks_processed = Len(chunks)
          /\ Len(results) = Len(chunks)

\* the first of three chunks failed, and the third was answered
C1_Witness ==
    /\ pc = "done" /\ Validated /\ exc = "none"
    /\ Len(chunks) = 3
    /\ Failed(1)
    /\ oracle_log[3].text = <<"A">>
    /\ results = << <<>>, results[2], <<"A">> >>
    /\ result.success /\ result.chunks_processed = 3

\* C2: the returned result has success = true exactly when content and
\* instructions are both non-blank and no exception escaped chunking or
\* aggregation, however many oracle calls failed.
C2_SuccessIffValidated ==
    pc = "done" => (result.success <=> (Validated /\ exc = "none"))

\* a run of several chunks in which every oracle call raised still succeeds
C2_Witness ==
    /\ pc = "done" /\ Validated /\ exc = "none"
    /\ Len(chunks) >= 2
    /\ \A k \in 1..Len(chunks) : Failed(k)
    /\ result.success

\* C3: every returned result has 0 <= successful_chunks <= chunks_processed,
\* confidence = successful_chunks / chunks_processed when chunks_processed > 0
\* and 0 otherwise; so confidence lies in [0,1], is 1 exactly when every chunk
\* yielded non-blank output and is 0 when every chunk was blank or failed.
C3_ConfidenceIsSuccessRatio ==
    pc = "done" =>
        /\ 0 <= result.successful_chunks
        /\ result.successful_chunks <= result.chunks_processed
        /\ result.confidence.den > 0
        /\ 0 <= result.confidence.num
        /\ result.confidence.num <= result.confidence.den
        /\ IF result.chunks_processed > 0
           THEN /\ SameValue(result.confidence,
                             [num |-> result.successful_chunks,
                              den |-> result.chunks_processed])
                /\ (result.confidence.num = result.confidence.den) <=>
                       (\A k \in 1..Len(chunks) : YieldedText(k))
                /\ (\A k \in 1..Len(chunks) : ~YieldedText(k)) =>
                       result.confidence.num = 0
           ELSE result.confidence.num = 0

\* one chunk of two yielded text: a confidence strictly between 0 and 1
C3_Witness ==
    /\ pc = "done" /\ result.success
    /\ result.chunks_processed = 2
    /\ result.successful_chunks = 1
    /\ result.confidence = [num |-> 1, den |-> 2]

\* C4: over n chunks, chunks_processed = n and successful_chunks is the number
\* of chunks whose oracle call returned text that is non-empty after
\* trimming, wherever the failing or empty chunks occur.
C4_CountsChunks ==
    (pc = "done" /\ Validated /\ exc = "none") =>
        /\ result.chunks_processed = Len(_intelligent_chunking(content))
        /\ result.successful_chunks =
              Cardinality({k \in 1..Len(oracle_log) : YieldedText(k)})

\* the oracle raises on chunk 2 of 3 and returns text for chunks 1 and 3
C4_Witness ==
    /\ pc = "done"
    /\ Len(chunks) = 3
    /\ YieldedText(1) /\ Failed(2) /\ YieldedText(3)
    /\ result.chunks_processed = 3
    /\ result.successful_chunks = 2
    /\ result.confidence = [num |-> 2, den |-> 3]
    /\ result.success

\* C5: blank content or blank instructions give success = false with an error
\* message (the one about empty content whenever the content is blank),
\* confidence 0 and chunks_processed 0, with no chunking and no oracle call.
C5_BlankInputRejected ==
    ~Validated =>
        /\ pc \in {"validate", "done"}
        /\ chunks = <<>>
        /\ oracle_log = <<>>
        /\ pc = "done" =>
              /\ ~result.success
              /\ result.error # ""
              /\ IsBlank(content) => result.error = "Empty content provided"
              /\ result.confidence.num = 0
              /\ result.chunks_processed = 0

\* content and instructions are both blank, and the call has returned
C5_Witness ==
    /\ pc = "done"
    /\ content = <<"\n">>
    /\ instructions = <<" ">>
    /\ result.error = "Empty content provided"

\* C7: when every chunk of a validated extraction yields an empty or blank
\* output or fails, the aggregated content is exactly the sentinel,
\* confidence is 0 and success stays true.
C7_AllEmptyGivesSentinel ==
    (pc = "done" /\ Validated /\ exc = "none"
        /\ \A k \in 1..Len(chunks) : ~YieldedText(k)) =>
        /\ result.content = Sentinel
        /\ result.confidence.num = 0
        /\ result.success

\* three chunks: an empty answer, a failure and a whitespace-only answer
C7_Witness ==
    /\ pc = "done" /\ Validated /\ exc = "none"
    /\ Len(chunks) = 3
    /\ oracle_log[1].kind = "text" /\ oracle_log[1].text = <<>>
    /\ Failed(2)
    /\ oracle_log[3].kind = "text" /\ oracle_log[3].text = <<" ">>
    /\ result.content = Sentinel

\* chunk k's oracle call answered with the sentinel text
AnsweredSentinel(k) ==
    oracle_log[k].kind = "text" /\ strip(oracle_log[k].text) = Sentinel

\* the pieces of an aggregated content
Pieces(text) == {split(text, ParagraphSep)[k] : k \in 1..Len(split(text, ParagraphSep))}

\* C8 as stated: a chunk the oracle answers with "No relevant data found" is
\* treated like an empty or failed chunk: it is not counted in
\* successful_chunks and its text is excluded from the aggregated content.
C8_SentinelTreatedAsEmpty ==
    (pc = "done" /\ Validated /\ exc = "none") =>
        /\ result.successful_chunks =
              Cardinality({k \in 1..Len(oracle_log) :
                              YieldedText(k) /\ ~AnsweredSentinel(k)})
        /\ (\E k \in 1..Len(oracle_log) : YieldedText(k) /\ ~AnsweredSentinel(k)) =>
              Sentinel \notin Pieces(result.content)

\* C8 as amended: a chunk the oracle answers with "No relevant data found" is
\* treated like any other non-blank answer: it is counted in
\* successful_chunks and its text is one of the pieces of the aggregated
\* content.
C8_SentinelTreatedAsText ==
    (pc = "done" /\ Validated /\ exc = "none") =>
        /\ result.successful_chunks =
              Cardinality({k \in 1..Len(oracle_log) : AnsweredSentinel(k)})
              + Cardinality({k \in 1..Len(oracle_log) :
                                YieldedText(k) /\ ~AnsweredSentinel(k)})
        /\ \A k \in 1..Len(oracle_log) :
              AnsweredSentinel(k) =>
                  /\ results[k] = Sentinel
                  /\ Sentinel \in Pieces(result.content)
        /\ (\A k \in 1..Len(oracle_log) : AnsweredSentinel(k)) =>
              result.confidence.num = result.confidence.den

\* two chunks, one answered with the sentinel and one with extracted text
C8_Witness ==
    /\ pc = "done" /\ Validated /\ exc = "none"
    /\ Len(chunks) = 2
    /\ AnsweredSentinel(1)
    /\ oracle_log[2].text = <<"A">>
    /\ result.successful_chunks = 2
    /\ result.content = Sentinel \o ParagraphSep \o <<"A">>

----------------------------------------------------------------------------
(* Properties of _combine_results, checked under SpecCombine *)

\* the positions of the entries that are non-blank and occur there first
FirstOccurrences(rs) ==
    {k \in 1..Len(rs) : ~IsBlank(rs[k]) /\ \A j \in 1..(k - 1) : rs[j] # rs[k]}

\* the entries at a set of positions, in increasing position order
RECURSIVE EntriesAt(_, _)
EntriesAt(rs, at) ==
    IF at = {} THEN <<>>
    ELSE LET k == CHOOSE x \in at : \A y \in at : x <= y
         IN  <<rs[k]>> \o EntriesAt(rs, at \ {k})

\* C6 as stated: for every list of chunk outputs the result is the non-blank
\* entries, one copy of each at its first occurrence, joined by a blank line.
C6_JoinOfSurvivors ==
    pc = "combine_return" =>
        combined_result =
            join(ParagraphSep, EntriesAt(results, FirstOccurrences(results)))

\* C6 as amended: for every list of chunk outputs with at least one non-blank
\* entry the result is the non-blank entries, one copy of each at its first
\* occurrence, joined by a blank line; for a list with none it is the
\* sentinel "No relevant data found".
C6_JoinOfSurvivorsOrSentinel ==
    pc = "combine_return" =>
        combined_result =
            IF FirstOccurrences(results) = {} THEN Sentinel
            ELSE join(ParagraphSep, EntriesAt(results, FirstOccurrences(results)))

\* ["A", "B", "A", ""] gives "A\n\nB"
C6_Witness ==
    /\ pc = "combine_return"
    /\ results = << <<"A">>, <<"B">>, <<"A">>, <<>> >>
    /\ combined_result = <<"A", "\n", "\n", "B">>

\* C13: the oracle is called once per chunk, in increasing chunk order: the
\* k-th call of a run is the call for chunk k, so no chunk is called twice
\* and a failed chunk is not retried; the output of every call made so far is
\* already recorded when the next call is made; a run that reaches the loop
\* ends with exactly one call per chunk.
C13_OneCallPerChunkInOrder ==
    /\ \A k \in 1..Len(oracle_log) : oracle_log[k].chunk = k
    /\ Len(oracle_log) <= Len(chunks)
    /\ Len(results) = Len(oracle_log)
    /\ (pc = "done" /\ Validated /\ exc # "chunking") =>
           Len(oracle_log) = Len(chunks)

C13_Witness ==
    /\ pc = "done"
    /\ Len(chunks) >= 2
    /\ Failed(1)
    /\ Len(oracle_log) = Len(chunks)
    /\ oracle_log[2].chunk = 2

\* the keys of the dictionary extract_content returned
Fields(r) == DOMAIN r

CommonFields ==
    {"success", "content", "confidence", "processing_time", "chunks_processed",
     "successful_chunks", "model_used"}

\* C15 as stated: every returned record, on the success path and on every
\* failure path, carries all fields of the result shape, metadata included.
C15_AllFieldsAlways ==
    pc = "done" => (CommonFields \cup {"metadata"}) \subseteq Fields(result)

\* C15 as the code has it: every returned record carries success, content,
\* confidence, processing_time, chunks_processed, successful_chunks and
\* model_used; metadata is carried by successful records only, and failure
\* records (validation error, pipeline exception) carry error instead.
C15_MetadataOnSuccessOnly ==
    pc = "done" =>
        /\ CommonFields \subseteq Fields(result)
        /\ "metadata" \in Fields(result) <=> result.success
        /\ "error" \in Fields(result) <=> ~result.success

C15_Witness ==
    /\ pc = "done"
    /\ exc = "chunking"
    /\ ~result.success
    /\ "metadata" \notin Fields(result)

----------------------------------------------------------------------------
(* Properties of the chunker, checked under SpecChunk *)

\* the atomic units of a content: its paragraphs and its sentences
Units(c) ==
    {split(c, ParagraphSep)[k] : k \in 1..Len(split(c, ParagraphSep))}
        \cup {split(c, SentenceSep)[k] : k \in 1..Len(split(c, SentenceSep))}

\* C9: for content longer than the chunk size, every chunk has length at most
\* the chunk size unless it is a single unit (one paragraph, or one sentence
\* in the fallback) that is itself longer than the chunk size.
C9_ChunksWithinSize ==
    (pc = "chunker_return" /\ Len(content) > CHUNK_SIZE) =>
        \A k \in 1..Len(chunks) :
            \/ Len(chunks[k]) <= CHUNK_SIZE
            \/ \E u \in Units(content) :
                  Len(u) > CHUNK_SIZE /\ chunks[k] = strip(u)

\* C10: content no longer than the chunk size gives exactly one chunk, equal
\* to the content with leading and trailing whitespace trimmed.
C10_SingleChunkTrimmed ==
    (pc = "chunker_return" /\ Len(content) <= CHUNK_SIZE) =>
        chunks = <<strip(content)>>

\* the characters of a text that are not whitespace, in order
NonSpace(text) == SelectSeq(text, LAMBDA ch : ~IsSpace(ch))

\* C11: the chunks, concatenated in order and read without whitespace, are
\* the content read without whitespace: no character other than whitespace is
\* lost or duplicated at a chunk boundary.
C11_ChunksLoseNothing ==
    pc = "chunker_return" =>
        NonSpace(join(<<>>, chunks)) = NonSpace(content)

\* C12: for non-blank content every chunk, on every path, is non-empty and
\* has no leading or trailing whitespace.
C12_ChunksTrimmedNonEmpty ==
    (pc = "chunker_return" /\ ~IsBlank(content)) =>
        \A k \in 1..Len(chunks) :
            chunks[k] # <<>> /\ strip(chunks[k]) = chunks[k]

----------------------------------------------------------------------------
(* AdvancedWebScrapingService.scrape_multiple_urls: one scrape_single task  *)
(* per URL, a semaphore around each task's fetch, asyncio.gather            *)

\* largest number of URLs in one call
MaxUrls == 3
\* largest max_concurrent
MaxConcurrent == 2

\* the URLs of a call are distinct names
UrlNames == <<"u1", "u2", "u3", "u4">>

\* a task that has not returned yet
NoOutcome == [kind |-> "none"]

\* what `await self.scrape_website_async(url)` can give task i: a
\* ScrapingResult of a successful scrape (it carries the URL), a ScrapingResult
\* of a failed scrape (scrape_website's error result, whose url is ""), or an
\* exception, which scrape_single catches and returns as a value. The field
\* `task` is history: the task that produced the outcome.
TaskOutcomes(i) ==
    {[kind |-> "result", success |-> TRUE, url |-> urls[i], task |-> i],
     [kind |-> "result", success |-> FALSE, url |-> "", task |-> i],
     [kind |-> "exception", success |-> FALSE, url |-> "", task |-> i]}

\* the state when gather has been handed the tasks: none has run yet
InitBatch ==
    /\ IdleExtract /\ IdleQuality /\ IdleSite /\ IdleSelenium /\ IdleHtml
    /\ urls \in {SubSeq(UrlNames, 1, n) : n \in 0..MaxUrls}
    /\ max_concurrent \in 1..MaxConcurrent
    /\ semaphore = max_concurrent
    /\ task = [i \in 1..Len(urls) |-> "waiting"]
    /\ task_outcome = [i \in 1..Len(urls) |-> NoOutcome]
    /\ completion = <<>>
    /\ gathered = <<>>
    /\ bpc = "gather"

\* variant: a task enters without waiting for the semaphore
Acquire_nowait(i) ==
    /\ bpc = "gather"
    /\ task[i] = "waiting"
    /\ semaphore' = semaphore - 1
    /\ task' = [task EXCEPT ![i] = "fetching"]
    /\ UNCHANGED <<urls, max_concurrent, task_outcome, completion, gathered, bpc>>
    /\ UNCHANGED <<extract_vars, quality_vars, site_vars, selenium_vars, html_vars>>

\* `async with semaphore` entered: the task starts its page fetch
Acquire(i) ==
    /\ bpc = "gather"
    /\ task[i] = "waiting"
    /\ semaphore > 0
    /\ semaphore' = semaphore - 1
    /\ task' = [task EXCEPT ![i] = "fetching"]
    /\ UNCHANGED <<urls, max_concurrent, task_outcome, completion, gathered, bpc>>
    /\ UNCHANGED <<extract_vars, quality_vars, site_vars, selenium_vars, html_vars>>

\* the fetch of task i ends, with a result or with an exception
FetchEnds(i) ==
    /\ bpc = "gather"
    /\ task[i] = "fetching"
    /\ \E o \in TaskOutcomes(i) : task_outcome' = [task_outcome EXCEPT ![i] = o]
    /\ task' = [task EXCEPT ![i] = "fetched"]
    /\ UNCHANGED <<urls, max_concurrent, semaphore, completion, gathered, bpc>>
    /\ UNCHANGED <<extract_vars, quality_vars, site_vars, selenium_vars, html_vars>>

\* variant: the permit is given back only when the fetch did not raise
Release_not_on_exception(i) ==
    /\ bpc = "gather"
    /\ task[i] = "fetched"
    /\ semaphore' = IF task_outcome[i].kind = "exception" THEN semaphore
                    ELSE semaphore + 1
    /\ task' = [task EXCEPT ![i] = "done"]
    /\ completion' = Append(completion, i)
    /\ UNCHANGED <<urls, max_concurrent, task_outcome, gathered, bpc>>
    /\ UNCHANGED <<extract_vars, quality_vars, site_vars, selenium_vars, html_vars>>

\* the task resumes, leaves `async with semaphore` and returns its outcome
Release(i) ==
    /\ bpc = "gather"
    /\ task[i] = "fetched"
    /\ semaphore' = semaphore + 1
    /\ task' = [task EXCEPT ![i] = "done"]
    /\ completion' = Append(completion, i)
    /\ UNCHANGED <<urls, max_concurrent, task_outcome, gathered, bpc>>
    /\ UNCHANGED <<extract_vars, quality_vars, site_vars, selenium_vars, html_vars>>

\* variant: gather without return_exceptions and scrape_single without its
\* handler: the first exception ends the call with that exception alone
Gather_fail_fast ==
    /\ bpc = "gather"
    /\ \/ /\ \A i \in 1..Len(urls) : task[i] = "done"
          /\ gathered' = [i \in 1..Len(urls) |-> task_outcome[i]]
       \/ \E i \in 1..Len(urls) :
             /\ task[i] = "done"
             /\ task_outcome[i].kind = "exception"
             /\ gathered' = <<task_outcome[i]>>
    /\ bpc' = "returned"
    /\ UNCHANGED <<urls, max_concurrent, semaphore, task, task_outcome, completion>>
    /\ UNCHANGED <<extract_vars, quality_vars, site_vars, selenium_vars, html_vars>>

\* every task has returned: gather returns their values in the order of the
\* tasks it was given
Gather ==
    /\ bpc = "gather"
    /\ \A i \in 1..Len(urls) : task[i] = "done"
    /\ gathered' = [i \in 1..Len(urls) |-> task_outcome[i]]
    /\ bpc' = "returned"
    /\ UNCHANGED <<urls, max_concurrent, semaphore, task, task_outcome, completion>>
    /\ UNCHANGED <<extract_vars, quality_vars, site_vars, selenium_vars, html_vars>>

NextBatch ==
    \/ \E i \in 1..Len(urls) : Acquire(i) \/ FetchEnds(i) \/ Release(i)
    \/ Gather

SpecBatch == InitBatch /\ [][NextBatch]_vars

\* the tasks whose page fetch is running
InFlight == {i \in 1..Len(urls) : task[i] = "fetching"}

\* the tasks inside `async with semaphore`
Holders == {i \in 1..Len(urls) : task[i] \in {"fetching", "fetched"}}

\* C16: with max_concurrent = k >= 1, in every interleaving of the tasks at
\* most k page fetches are in flight; the tasks inside the semaphore and the
\* semaphore's value always add up to k.
C16_AtMostKInFlight ==
    bpc # "idle" =>
        /\ Cardinality(InFlight) <= max_concurrent
        /\ Cardinality(Holders) + semaphore = max_concurrent
        /\ semaphore >= 0

C16_Witness ==
    /\ bpc = "gather"
    /\ max_concurrent = 2
    /\ Cardinality(InFlight) = 2
    /\ \E i \in 1..Len(urls) : task[i] = "waiting"

\* C17: the returned list has one outcome per URL, at the URL's position,
\* each a scraping result or a captured exception, produced by that URL's own
\* task after its fetch ran; a successful result is the one of that URL.
C17_OneOutcomePerUrlInPlace ==
    bpc = "returned" =>
        /\ Len(gathered) = Len(urls)
        /\ \A i \in 1..Len(urls) :
              /\ gathered[i].kind \in {"result", "exception"}
              /\ gathered[i].task = i
              /\ gathered[i].success => gathered[i].url = urls[i]
              /\ \E k \in 1..Len(completion) : completion[k] = i

C17_Witness ==
    /\ bpc = "returned"
    /\ Len(urls) = 3
    /\ completion = <<3, 1, 2>>
    /\ gathered[1].kind = "exception"
    /\ gathered[2].kind = "result" /\ ~gathered[2].success
    /\ gathered[3].kind = "result" /\ gathered[3].success /\ gathered[3].url = "u3"

----------------------------------------------------------------------------
(* ProfessionalScrapingService.scrape_website *)

\* longest URL argument
MaxUrlLen == 2

\* the pages a retrieval can return: the HTML text, and what the parser finds
\* in it (its text lines, its element counts, its links and images)
Pages ==
    {[html |-> "<p>t</p>", text |-> "t", total_elements |-> 1, links |-> 0,
      images |-> 0, link_list |-> <<>>, image_list |-> <<>>],
     [html |-> "<a href=h>t</a><img src=s>", text |-> "t", total_elements |-> 2,
      links |-> 1, images |-> 1, link_list |-> <<"h">>, image_list |-> <<"s">>]}

PageOf(html) == CHOOSE p \in Pages : p.html = html

\* len() of the strings of Pages
StrLen(str) ==
    CASE str = "" -> 0
      [] str = "t" -> 1
      [] str = "<p>t</p>" -> 8
      [] str = "<a href=h>t</a><img src=s>" -> 26

\* the messages of the exceptions a retrieval can raise
RetrievalErrors(selenium) ==
    IF selenium
    THEN {"Page load timeout - content may be too slow to load",
          "Selenium error: <e>", "<driver could not be started>"}
    ELSE {"HTTP request failed: <e>"}

\* ProfessionalScrapingService._create_error_result
ScrapeErrorResult(error_message) ==
    [success |-> FALSE,
     url |-> <<>>,
     content |-> "",
     raw_content |-> "",
     dom_analysis |-> <<>>,
     extracted_links |-> <<>>,
     extracted_images |-> <<>>,
     error |-> error_message,
     processing_time |-> "elapsed",
     method |-> "none"]

\* the record _analyze_dom_structure returns when its own handler ran
MinimalAnalysis == [error |-> "<e>", total_elements |-> 0]

\* the analysis of a page, reduced to the counts scrape_website reads
FullAnalysis(html) ==
    [total_elements |-> PageOf(html).total_elements,
     links |-> PageOf(html).links,
     images |-> PageOf(html).images]

InitSite ==
    /\ IdleExtract /\ IdleQuality /\ IdleBatch /\ IdleSelenium /\ IdleHtml
    /\ url \in Texts({" ", "u"}, MaxUrlLen)
    /\ use_selenium \in BOOLEAN
    /\ extract_links_arg \in BOOLEAN
    /\ extract_images_arg \in BOOLEAN
    /\ spc = "validate"
    /\ ops = <<>>
    /\ raw_content = ""
    /\ dom_analysis = <<>>
    /\ cleaned_content = ""
    /\ extracted_links = <<>>
    /\ extracted_images = <<>>
    /\ scrape_result = <<>>

\* variant: no URL check, every URL is retrieved
ValidateUrl_skip ==
    /\ spc = "validate"
    /\ spc' = "fetch"
    /\ UNCHANGED <<url, use_selenium, extract_links_arg, extract_images_arg, ops,
                   raw_content, dom_analysis, cleaned_content, extracted_links,
                   extracted_images, scrape_result>>
    /\ UNCHANGED <<extract_vars, quality_vars, batch_vars, selenium_vars, html_vars>>

\* `if not url or not url.strip()`
ValidateUrl ==
    /\ spc = "validate"
    /\ IF IsBlank(url)
       THEN /\ scrape_result' = ScrapeErrorResult("Invalid URL provided")
            /\ spc' = "done"
       ELSE /\ scrape_result' = scrape_result
            /\ spc' = "fetch"
    /\ UNCHANGED <<url, use_selenium, extract_links_arg, extract_images_arg, ops,
                   raw_content, dom_analysis, cleaned_content, extracted_links,
                   extracted_images>>
    /\ UNCHANGED <<extract_vars, quality_vars, batch_vars, selenium_vars, html_vars>>

\* _scrape_with_selenium or _scrape_with_requests: the page, or an exception
\* that the outer handler turns into an error result
Fetch ==
    /\ spc = "fetch"
    /\ ops' = Append(ops, "fetch")
    /\ \/ \E p \in Pages :
             /\ raw_content' = p.html
             /\ spc' = "analyze"
             /\ scrape_result' = scrape_result
       \/ \E e \in RetrievalErrors(use_selenium) :
             /\ raw_content' = raw_content
             /\ spc' = "done"
             /\ scrape_result' = ScrapeErrorResult(e)
    /\ UNCHANGED <<url, use_selenium, extract_links_arg, extract_images_arg,
                   dom_analysis, cleaned_content, extracted_links, extracted_images>>
    /\ UNCHANGED <<extract_vars, quality_vars, batch_vars, selenium_vars, html_vars>>

\* _analyze_dom_structure: the analysis, or its minimal record when it failed
AnalyzeDom ==
    /\ spc = "analyze"
    /\ ops' = Append(ops, "analyze")
    /\ dom_analysis' \in {FullAnalysis(raw_content), MinimalAnalysis}
    /\ spc' = "clean"
    /\ UNCHANGED <<url, use_selenium, extract_links_arg, extract_images_arg,
                   raw_content, cleaned_content, extracted_links, extracted_images,
                   scrape_result>>
    /\ UNCHANGED <<extract_vars, quality_vars, batch_vars, selenium_vars, html_vars>>

\* _clean_content: the page's text, or the HTML unchanged when it failed
CleanContent ==
    /\ spc = "clean"
    /\ ops' = Append(ops, "clean")
    /\ cleaned_content' \in {PageOf(raw_content).text, raw_content}
    /\ spc' = "links"
    /\ UNCHANGED <<url, use_selenium, extract_links_arg, extract_images_arg,
                   raw_content, dom_analysis, extracted_links, extracted_images,
                   scrape_result>>
    /\ UNCHANGED <<extract_vars, quality_vars, batch_vars, selenium_vars, html_vars>>

\* `if extract_links: extracted_links = self.extract_links(raw_content)`
ExtractLinks ==
    /\ spc = "links"
    /\ IF extract_links_arg
       THEN /\ ops' = Append(ops, "links")
            /\ extracted_links' \in {PageOf(raw_content).link_list, <<>>}
       ELSE UNCHANGED <<ops, extracted_links>>
    /\ spc' = "images"
    /\ UNCHANGED <<url, use_selenium, extract_links_arg, extract_images_arg,
                   raw_content, dom_analysis, cleaned_content, extracted_images,
                   scrape_result>>
    /\ UNCHANGED <<extract_vars, quality_vars, batch_vars, selenium_vars, html_vars>>

\* `if extract_images: extracted_images = self.extract_images(raw_content)`
ExtractImages ==
    /\ spc = "images"
    /\ IF extract_images_arg
       THEN /\ ops' = Append(ops, "images")
            /\ extracted_images' \in {PageOf(raw_content).image_list, <<>>}
       ELSE UNCHANGED <<ops, extracted_images>>
    /\ spc' = "return"
    /\ UNCHANGED <<url, use_selenium, extract_links_arg, extract_images_arg,
                   raw_content, dom_analysis, cleaned_content, extracted_links,
                   scrape_result>>
    /\ UNCHANGED <<extract_vars, quality_vars, batch_vars, selenium_vars, html_vars>>

\* the success dictionary; reading dom_analysis["links"] raises KeyError on
\* the analyzer's minimal record, and the outer handler returns an error result
ReturnResult ==
    /\ spc = "return"
    /\ scrape_result' =
           IF {"total_elements", "links", "images"} \subseteq DOMAIN dom_analysis
           THEN [success |-> TRUE,
                 url |-> url,
                 content |-> cleaned_content,
                 raw_content |-> raw_content,
                 dom_analysis |-> dom_analysis,
                 extracted_links |-> extracted_links,
                 extracted_images |-> extracted_images,
                 processing_time |-> "elapsed",
                 method |-> IF use_selenium THEN "selenium" ELSE "requests",
                 metadata |-> [content_length |-> StrLen(cleaned_content),
                               raw_length |-> StrLen(raw_content),
                               elements_count |-> dom_analysis.total_elements,
                               links_count |-> dom_analysis.links,
                               images_count |-> dom_analysis.images]]
           ELSE ScrapeErrorResult("'links'")
    /\ spc' = "done"
    /\ UNCHANGED <<url, use_selenium, extract_links_arg, extract_images_arg, ops,
                   raw_content, dom_analysis, cleaned_content, extracted_links,
                   extracted_images>>
    /\ UNCHANGED <<extract_vars, quality_vars, batch_vars, selenium_vars, html_vars>>

NextSite ==
    ValidateUrl \/ Fetch \/ AnalyzeDom \/ CleanContent \/ ExtractLinks
        \/ ExtractImages \/ ReturnResult

SpecSite == InitSite /\ [][NextSite]_vars

\* the retrieval ran and raised: no page was obtained
RetrievalFailed == ops # <<>> /\ ops[1] = "fetch" /\ raw_content = ""

\* C18: scrape_website always ends by returning a record; for a blank URL or
\* a failed retrieval the record has success false, a non-empty error message
\* and empty content, and DOM analysis, cleaning and link / image extraction
\* have not run; for a blank URL the retrieval has not run either.
C18_FailureStopsThePipeline ==
    /\ spc \in {"idle", "validate", "fetch", "analyze", "clean", "links", "images",
                "return", "done"}
    /\ spc = "done" => "success" \in DOMAIN scrape_result
    /\ (spc = "done" /\ (IsBlank(url) \/ RetrievalFailed)) =>
           /\ scrape_result.success = FALSE
           /\ scrape_result.error # ""
           /\ scrape_result.content = ""
           /\ \A k \in 1..Len(ops) : ops[k] = "fetch"
           /\ IsBlank(url) => ops = <<>>

C18_Witness ==
    /\ spc = "done"
    /\ ~IsBlank(url)
    /\ use_selenium /\ extract_links_arg /\ extract_images_arg
    /\ RetrievalFailed
    /\ scrape_result.error = "Page load timeout - content may be too slow to load"
    /\ ops = <<"fetch">>

----------------------------------------------------------------------------
(* ProfessionalScrapingService._assess_structure_quality *)

\* largest element count, and longest id / class list, of an analysis record
MaxCount == 1

\* the analysis records handed to the function: the counts it reads, the
\* heading counts (with or without an entry for h1) and the id / class lists
Analyses ==
    [headings : {<<>>} \cup [{"h1"} -> 0..MaxCount],
     paragraphs : 0..MaxCount,
     links : 0..MaxCount,
     images : 0..MaxCount,
     divs : 0..MaxCount,
     tables : 0..MaxCount,
     ids : UNION {[1..n -> {"x"}] : n \in 0..MaxCount},
     classes : UNION {[1..n -> {"x"}] : n \in 0..MaxCount}]

\* analysis["headings"].get("h1", 0)
H1Count(a) == IF "h1" \in DOMAIN a.headings THEN a.headings["h1"] ELSE 0

\* variant: an h1 is worth one point
Score_h1_one(a) ==
    (IF H1Count(a) > 0 THEN 1 ELSE 0)
        + (IF a.paragraphs > 0 THEN 1 ELSE 0)
        + (IF a.links > 0 THEN 1 ELSE 0)
        + (IF a.images > 0 THEN 1 ELSE 0)
        + (IF a.divs > 0 THEN 1 ELSE 0)
        + (IF a.tables > 0 THEN 1 ELSE 0)
        + (IF a.ids # <<>> THEN 1 ELSE 0)
        + (IF a.classes # <<>> THEN 1 ELSE 0)

\* variant: an h1 is worth three points
Score_h1_three(a) ==
    (IF H1Count(a) > 0 THEN 3 ELSE 0)
        + (IF a.paragraphs > 0 THEN 1 ELSE 0)
        + (IF a.links > 0 THEN 1 ELSE 0)
        + (IF a.images > 0 THEN 1 ELSE 0)
        + (IF a.divs > 0 THEN 1 ELSE 0)
        + (IF a.tables > 0 THEN 1 ELSE 0)
        + (IF a.ids # <<>> THEN 1 ELSE 0)
        + (IF a.classes # <<>> THEN 1 ELSE 0)

\* the local `score` after the eight tests
Score(a) ==
    (IF H1Count(a) > 0 THEN 2 ELSE 0)
        + (IF a.paragraphs > 0 THEN 1 ELSE 0)
        + (IF a.links > 0 THEN 1 ELSE 0)
        + (IF a.images > 0 THEN 1 ELSE 0)
        + (IF a.divs > 0 THEN 1 ELSE 0)
        + (IF a.tables > 0 THEN 1 ELSE 0)
        + (IF a.ids # <<>> THEN 1 ELSE 0)
        + (IF a.classes # <<>> THEN 1 ELSE 0)

\* the label for a score
QualityLabel(n) ==
    IF n >= 7 THEN "excellent"
    ELSE IF n >= 5 THEN "good"
    ELSE IF n >= 3 THEN "fair"
    ELSE "poor"

_assess_structure_quality(a) == QualityLabel(Score(a))

InitQuality ==
    /\ IdleExtract /\ IdleSite /\ IdleBatch /\ IdleSelenium /\ IdleHtml
    /\ analysis \in Analyses
    /\ score = 0
    /\ structure_quality = ""
    /\ qpc = "quality_call"

AssessRun ==
    /\ qpc = "quality_call"
    /\ score' = Score(analysis)
    /\ structure_quality' = _assess_structure_quality(analysis)
    /\ qpc' = "quality_return"
    /\ UNCHANGED analysis
    /\ UNCHANGED <<extract_vars, site_vars, batch_vars, selenium_vars, html_vars>>

NextQuality == AssessRun

SpecQuality == InitQuality /\ [][NextQuality]_vars

\* the seven features worth one point that the record shows
OnePointFeatures ==
    {f \in {"paragraphs", "links", "images", "divs", "tables"} : analysis[f] > 0}
        \cup {f \in {"ids", "classes"} : Len(analysis[f]) > 0}

HasH1 == "h1" \in DOMAIN analysis.headings /\ analysis.headings["h1"] >= 1

\* C19: the score is 2 for an h1 plus 1 for each of paragraphs, links,
\* images, divs, tables, a non-empty id list and a non-empty class list that
\* is present; 7 and more is "excellent", 5 and 6 "good", 3 and 4 "fair", less
\* "poor"; an h1 and paragraphs alone score 3 and are graded "fair".
C19_ScoreAndLabel ==
    qpc = "quality_return" =>
        /\ score = (IF HasH1 THEN 2 ELSE 0) + Cardinality(OnePointFeatures)
        /\ structure_quality =
              CASE score >= 7 -> "excellent"
                [] score \in {5, 6} -> "good"
                [] score \in {3, 4} -> "fair"
                [] score <= 2 -> "poor"
        /\ (HasH1 /\ OnePointFeatures = {"paragraphs"}) =>
              (score = 3 /\ structure_quality = "fair")

C19_Witness ==
    /\ qpc = "quality_return"
    /\ HasH1
    /\ OnePointFeatures = {"paragraphs"}
    /\ score = 3
    /\ structure_quality = "fair"

\* C20 as stated: the score is at most 8 for every analysis record.
C20_ScoreAtMost8 ==
    qpc = "quality_return" => score <= 8

\* C20 as the code has it: the score is at most 9 for every analysis record,
\* and it is 9 when an h1 and all seven other features are present.
C20_ScoreAtMost9 ==
    qpc = "quality_return" =>
        /\ score \in 0..9
        /\ (HasH1 /\ Cardinality(OnePointFeatures) = 7) => score = 9

C20_Witness ==
    /\ qpc = "quality_return"
    /\ HasH1
    /\ Cardinality(OnePointFeatures) = 7
    /\ score = 9
    /\ structure_quality = "excellent"

----------------------------------------------------------------------------
(* Further properties of the chunker, checked under SpecChunk *)

\* C25: for non-blank content the chunker returns at least one chunk (so a
\* successful extract_content has chunks_processed >= 1).
C25_AtLeastOneChunk ==
    (pc = "chunker_return" /\ ~IsBlank(content)) => Len(chunks) >= 1

\* the sentence fallback is what the chunker returns for content c
FallbackRuns(c) == Len(c) > CHUNK_SIZE /\ StillTooLarge(ParagraphPass(c))

\* the paragraphs of c that are not blank
NonBlankParagraphs(c) ==
    {k \in 1..Len(split(c, ParagraphSep)) : ~IsBlank(split(c, ParagraphSep)[k])}

\* C26: the sentence fallback runs exactly when the paragraph pass left one
\* chunk longer than the chunk size, and then the content has a single
\* paragraph (blank paragraphs aside); two or more chunks of the paragraph
\* pass are returned as they are; the fallback's chunks are those of the
\* greedy rule over the sentences.
C26_FallbackOnlyForOneParagraph ==
    (pc = "chunker_return" /\ Len(content) > CHUNK_SIZE) =>
        /\ FallbackRuns(content) =>
              /\ Cardinality(NonBlankParagraphs(content)) <= 1
              /\ chunks = SentenceLoop(split(content, SentenceSep), <<>>, <<>>)
        /\ Len(ParagraphPass(content)) >= 2 => chunks = ParagraphPass(content)

----------------------------------------------------------------------------
(* Further properties of scrape_website, checked under SpecSite *)

\* _analyze_dom_structure ran and ended in its own handler
AnalyzerFailed == "error" \in DOMAIN dom_analysis

\* C21: the record _analyze_dom_structure returns after an internal error has
\* an error field and reports zero for total_elements and for the per-tag
\* counts links and images.
C21_MinimalRecordHasZeroCounts ==
    AnalyzerFailed =>
        /\ "total_elements" \in DOMAIN dom_analysis /\ dom_analysis.total_elements = 0
        /\ "links" \in DOMAIN dom_analysis /\ dom_analysis.links = 0
        /\ "images" \in DOMAIN dom_analysis /\ dom_analysis.images = 0

\* C27: when the retrieval succeeded and the analyzer failed, scrape_website
\* still returns success true, with the cleaned content and with the
\* analyzer's minimal record as dom_analysis.
C27_AnalyzerFailureIsNotFatal ==
    (spc = "done" /\ AnalyzerFailed) =>
        /\ scrape_result.success = TRUE
        /\ scrape_result.content = cleaned_content
        /\ scrape_result.dom_analysis = dom_analysis

----------------------------------------------------------------------------
(* ProfessionalScrapingService._scrape_with_selenium *)

\* the page sources the browser can hand back
PageSources == {"<html>1</html>", "<html>2</html>", "<html>3</html>"}

\* the exception classes a driver call can raise; TimeoutException is a
\* WebDriverException, anything else is "Other"
DriverExceptions == {"TimeoutException", "WebDriverException", "Other"}

Nothing == [kind |-> "none"]
Returning(page) == [kind |-> "return", value |-> page]
Raising(e) == [kind |-> "raise", value |-> e]

\* a call with a non-blank URL (scrape_website has checked it)
InitSelenium ==
    /\ IdleExtract /\ IdleQuality /\ IdleBatch /\ IdleHtml
    /\ url \in {u \in Texts({" ", "u"}, MaxUrlLen) : ~IsBlank(u)}
    /\ use_selenium = TRUE
    /\ extract_links_arg = FALSE /\ extract_images_arg = FALSE
    /\ spc = "fetch" /\ ops = <<>> /\ raw_content = "" /\ dom_analysis = <<>>
    /\ cleaned_content = "" /\ extracted_links = <<>> /\ extracted_images = <<>>
    /\ scrape_result = <<>>
    /\ dpc = "create"
    /\ driver = "none"
    /\ quit_calls = 0
    /\ outcome_pending = Nothing
    /\ reached_caller = Nothing

\* `driver = webdriver.Chrome(...)`, before the try: a failure goes straight
\* to the caller
CreateDriver ==
    /\ dpc = "create"
    /\ \/ /\ driver' = "running"
          /\ dpc' = "get"
          /\ reached_caller' = reached_caller
       \/ \E e \in {"WebDriverException", "Other"} :
             /\ driver' = driver
             /\ dpc' = "done"
             /\ reached_caller' = Raising(e)
    /\ UNCHANGED <<quit_calls, outcome_pending>>
    /\ UNCHANGED <<extract_vars, quality_vars, site_vars, batch_vars, html_vars>>

\* `driver.get(url)`
Navigate ==
    /\ dpc = "get"
    /\ \/ dpc' = "wait" /\ outcome_pending' = outcome_pending
       \/ \E e \in DriverExceptions : dpc' = "except" /\ outcome_pending' = Raising(e)
    /\ UNCHANGED <<driver, quit_calls, reached_caller>>
    /\ UNCHANGED <<extract_vars, quality_vars, site_vars, batch_vars, html_vars>>

\* `WebDriverWait(driver, 10).until(...)` and the sleep after it
WaitForBody ==
    /\ dpc = "wait"
    /\ \/ dpc' = "page_source" /\ outcome_pending' = outcome_pending
       \/ \E e \in DriverExceptions : dpc' = "except" /\ outcome_pending' = Raising(e)
    /\ UNCHANGED <<driver, quit_calls, reached_caller>>
    /\ UNCHANGED <<extract_vars, quality_vars, site_vars, batch_vars, html_vars>>

\* `return driver.page_source`
ReturnPageSource ==
    /\ dpc = "page_source"
    /\ \/ \E page \in PageSources : dpc' = "finally" /\ outcome_pending' = Returning(page)
       \/ \E e \in {"WebDriverException", "Other"} :
             dpc' = "except" /\ outcome_pending' = Raising(e)
    /\ UNCHANGED <<driver, quit_calls, reached_caller>>
    /\ UNCHANGED <<extract_vars, quality_vars, site_vars, batch_vars, html_vars>>

\* the message of the exception the except clauses raise for exception e
Translated(e) ==
    IF e = "TimeoutException"
    THEN "Page load timeout - content may be too slow to load"
    ELSE IF e = "WebDriverException" THEN "Selenium error: <e>"
    ELSE e

\* variant: driver.quit() placed in the two except clauses, not in a finally
ExceptClauses_quit_inside ==
    /\ dpc = "except"
    /\ outcome_pending' = Raising(Translated(outcome_pending.value))
    /\ IF outcome_pending.value = "Other"
       THEN dpc' = "deliver" /\ UNCHANGED <<driver, quit_calls>>
       ELSE dpc' = "deliver" /\ driver' = "quit" /\ quit_calls' = quit_calls + 1
    /\ UNCHANGED reached_caller
    /\ UNCHANGED <<extract_vars, quality_vars, site_vars, batch_vars, html_vars>>

\* the except clauses: TimeoutException and WebDriverException are replaced
\* by an Exception with a message, any other exception passes unchanged
ExceptClauses ==
    /\ dpc = "except"
    /\ outcome_pending' = Raising(Translated(outcome_pending.value))
    /\ dpc' = "finally"
    /\ UNCHANGED <<driver, quit_calls, reached_caller>>
    /\ UNCHANGED <<extract_vars, quality_vars, site_vars, batch_vars, html_vars>>

\* `finally: driver.quit()`; an exception of quit itself replaces the
\* pending return value or exception
Finally ==
    /\ dpc = "finally"
    /\ driver' = "quit"
    /\ quit_calls' = quit_calls + 1
    /\ outcome_pending' \in {outcome_pending, Raising("<quit failed>")}
    /\ dpc' = "deliver"
    /\ UNCHANGED reached_caller
    /\ UNCHANGED <<extract_vars, quality_vars, site_vars, batch_vars, html_vars>>

\* the function is left: the caller gets the page source or the exception
Deliver ==
    /\ dpc = "deliver"
    /\ reached_caller' = outcome_pending
    /\ dpc' = "done"
    /\ UNCHANGED <<driver, quit_calls, outcome_pending>>
    /\ UNCHANGED <<extract_vars, quality_vars, site_vars, batch_vars, html_vars>>

NextSelenium ==
    CreateDriver \/ Navigate \/ WaitForBody \/ ReturnPageSource \/ ExceptClauses
        \/ Finally \/ Deliver

SpecSelenium == InitSelenium /\ [][NextSelenium]_vars

\* C29: once the driver has been created it is quit exactly once on every
\* exit path, and before anything reaches the caller: quit is never called
\* twice, nothing has reached the caller while the driver is still running,
\* and when the caller has its result or exception a created driver has been
\* quit once.
C29_DriverQuitOnceBeforeExit ==
    /\ quit_calls <= 1
    /\ driver = "quit" <=> quit_calls = 1
    /\ driver = "running" => reached_caller = Nothing
    /\ dpc = "done" =>
          /\ reached_caller # Nothing
          /\ driver # "running"
          /\ driver = "none" => reached_caller.kind = "raise"

C29_Witness ==
    /\ dpc = "done"
    /\ reached_caller = Raising("Other")
    /\ driver = "quit"
    /\ quit_calls = 1

----------------------------------------------------------------------------
(* scrape_multiple_urls with its scheduling: the event loop runs every task *)
(* that can run, every page fetch returns or fails, and gather returns once *)
(* every task has                                                           *)

FairBatch ==
    /\ \A i \in 1..(MaxUrls + 1) :
          /\ WF_vars(i <= Len(urls) /\ Acquire(i))
          /\ WF_vars(i <= Len(urls) /\ FetchEnds(i))
          /\ WF_vars(i <= Len(urls) /\ Release(i))
    /\ WF_vars(Gather)

SpecBatchFair == InitBatch /\ [][NextBatch]_vars /\ FairBatch

\* C30: for max_concurrent >= 1 and fetches that each return or fail, the
\* call completes for every list of URLs: every waiting task gets the
\* semaphore, every task that holds it gives it back, whatever its outcome,
\* and at completion all max_concurrent permits are available.
C30_BatchCompletes ==
    /\ <>(bpc = "returned")
    /\ \A i \in 1..(MaxUrls + 1) :
          /\ (i <= Len(urls) /\ task[i] = "waiting")
                ~> (i <= Len(urls) /\ task[i] = "fetching")
          /\ (i <= Len(urls) /\ task[i] = "fetching")
                ~> (i <= Len(urls) /\ task[i] = "done")
    /\ [](bpc = "returned" => semaphore = max_concurrent)

C30_Witness ==
    /\ bpc = "returned"
    /\ Len(urls) = 3
    /\ max_concurrent = 1
    /\ semaphore = 1
    /\ gathered[1].kind = "exception"
    /\ gathered[3].kind = "result"

----------------------------------------------------------------------------
(* _clean_content, extract_links and extract_images.  A document is what   *)
(* BeautifulSoup(html_content, "html.parser") gives the three functions:   *)
(* its elements in document order, each with its tag, the value of its     *)
(* href (for a) or src (for img) attribute, the text inside it, and whether *)
(* it is, or lies inside, one of the elements _clean_content removes.       *)

\* most elements in a document
MaxElements == 2

\* an attribute the element does not have
Absent == "<absent>"

\* attribute values: not there, there and empty, there with a value
RefValues == {Absent, "", "u"}

\* the texts an element can hold
ElementTexts ==
    {<<>>,
     <<" ">>,
     <<"a">>,
     <<" ", "b", "\n", "\n", "c", " ">>,
     <<"a", ".", " ", "a">>}

unwanted_tags == {"script", "style", "nav", "footer", "header", "aside", "noscript"}

Elements ==
    [tag : {"a"}, ref : RefValues, text : ElementTexts, removed : BOOLEAN]
        \cup [tag : {"img"}, ref : RefValues, text : {<<>>}, removed : {FALSE}]
        \cup [tag : {"p"}, ref : {Absent}, text : ElementTexts, removed : BOOLEAN]
        \cup [tag : {"script"}, ref : {Absent}, text : ElementTexts, removed : {TRUE}]

Documents == UNION {[1..n -> Elements] : n \in 0..MaxElements}

\* the text nodes soup.get_text() visits after the unwanted elements have
\* been decomposed
RECURSIVE TextNodes(_)
TextNodes(doc) ==
    IF doc = <<>> THEN <<>>
    ELSE IF Head(doc).removed \/ Head(doc).tag \in unwanted_tags
                \/ Head(doc).text = <<>>
    THEN TextNodes(Tail(doc))
    ELSE <<Head(doc).text>> \o TextNodes(Tail(doc))

Newline == <<"\n">>

\* str.splitlines(): the pieces between newlines, no empty piece after a
\* final newline, no piece at all for the empty string
splitlines(text) ==
    LET pieces == split(text, Newline)
    IN  IF text = <<>> THEN <<>>
        ELSE IF pieces[Len(pieces)] = <<>> THEN SubSeq(pieces, 1, Len(pieces) - 1)
        ELSE pieces

\* the loop over the lines: strip each, keep the non-empty ones
RECURSIVE CleanedLines(_)
CleanedLines(lines) ==
    IF lines = <<>> THEN <<>>
    ELSE IF strip(Head(lines)) # <<>>
    THEN <<strip(Head(lines))>> \o CleanedLines(Tail(lines))
    ELSE CleanedLines(Tail(lines))

\* variant: the lines are kept as they are, whitespace included
_clean_content_nostrip(doc) ==
    join(Newline, SelectSeq(splitlines(join(Newline, TextNodes(doc))),
                            LAMBDA line : strip(line) # <<>>))

\* variant: empty lines are kept
_clean_content_keep_empty(doc) ==
    LET lines == splitlines(join(Newline, TextNodes(doc)))
    IN  join(Newline, [k \in 1..Len(lines) |-> strip(lines[k])])

\* _clean_content on its normal path
_clean_content(doc) ==
    join(Newline, CleanedLines(splitlines(join(Newline, TextNodes(doc)))))

\* variant: the anchors with blank text are kept
extract_links_any_text(doc) ==
    LET anchors == SelectSeq(doc, LAMBDA e : e.tag = "a" /\ e.ref # Absent /\ e.ref # "")
    IN  [k \in 1..Len(anchors) |->
            [text |-> strip(anchors[k].text), href |-> anchors[k].ref, title |-> ""]]

\* extract_links: the loop over find_all("a", href=True)
RECURSIVE extract_links(_)
extract_links(doc) ==
    IF doc = <<>> THEN <<>>
    ELSE LET link == Head(doc)
             href == link.ref
             text == strip(link.text)
         IN  IF link.tag = "a" /\ href # Absent /\ href # "" /\ text # <<>>
             THEN <<[text |-> text, href |-> href, title |-> ""]>>
                      \o extract_links(Tail(doc))
             ELSE extract_links(Tail(doc))

\* extract_images: the loop over find_all("img", src=True); src=True matches
\* every img that has the attribute, whatever its value
RECURSIVE extract_images(_)
extract_images(doc) ==
    IF doc = <<>> THEN <<>>
    ELSE LET img == Head(doc)
         IN  IF img.tag = "img" /\ img.ref # Absent
             THEN <<[src |-> img.ref, alt |-> "", title |-> "", width |-> "",
                     height |-> ""]>> \o extract_images(Tail(doc))
             ELSE extract_images(Tail(doc))

InitHtml ==
    /\ IdleExtract /\ IdleQuality /\ IdleSite /\ IdleBatch /\ IdleSelenium
    /\ html_content \in Documents
    /\ hpc = "clean_call"
    /\ found_links = <<>>
    /\ found_images = <<>>
    /\ clean_text = <<>>

CleanRun ==
    /\ hpc = "clean_call"
    /\ clean_text' = _clean_content(html_content)
    /\ hpc' = "links_call"
    /\ UNCHANGED <<html_content, found_links, found_images>>
    /\ UNCHANGED <<extract_vars, quality_vars, site_vars, batch_vars, selenium_vars>>

LinksRun ==
    /\ hpc = "links_call"
    /\ found_links' = extract_links(html_content)
    /\ hpc' = "images_call"
    /\ UNCHANGED <<html_content, found_images, clean_text>>
    /\ UNCHANGED <<extract_vars, quality_vars, site_vars, batch_vars, selenium_vars>>

ImagesRun ==
    /\ hpc = "images_call"
    /\ found_images' = extract_images(html_content)
    /\ hpc' = "returned"
    /\ UNCHANGED <<html_content, found_links, clean_text>>
    /\ UNCHANGED <<extract_vars, quality_vars, site_vars, batch_vars, selenium_vars>>

NextHtml == CleanRun \/ LinksRun \/ ImagesRun

SpecHtml == InitHtml /\ [][NextHtml]_vars

----------------------------------------------------------------------------
(* Properties of the three document functions, checked under SpecHtml *)

\* position of element k among the elements of the set `kept`
Rank(kept, k) == Cardinality({j \in kept : j <= k})

\* the anchors with a non-empty href and non-blank text
KeptAnchors ==
    {k \in 1..Len(html_content) :
        /\ html_content[k].tag = "a"
        /\ html_content[k].ref \notin {Absent, ""}
        /\ ~IsBlank(html_content[k].text)}

KeptImages ==
    {k \in 1..Len(html_content) :
        html_content[k].tag = "img" /\ html_content[k].ref \notin {Absent, ""}}

\* C23: extract_images returns one record for exactly the img elements whose
\* src is non-empty, in document order; an img without src, or with an empty
\* src, is never in the list.
C23_ImagesHaveNonEmptySrc ==
    hpc = "returned" =>
        /\ Len(found_images) = Cardinality(KeptImages)
        /\ \A j \in 1..Len(found_images) : found_images[j].src # ""
        /\ \A k \in KeptImages :
              found_images[Rank(KeptImages, k)].src = html_content[k].ref

\* the lines of the text of the elements that are not removed, element by
\* element
RECURSIVE InputLines(_)
InputLines(doc) ==
    IF doc = <<>> THEN <<>>
    ELSE IF Head(doc).removed \/ Head(doc).tag \in unwanted_tags
    THEN InputLines(Tail(doc))
    ELSE split(Head(doc).text, Newline) \o InputLines(Tail(doc))

\* the lines of a text that was joined with single newlines
OutputLines(text) == IF text = <<>> THEN <<>> ELSE split(text, Newline)

\* C24: on its normal path _clean_content returns the lines of the text
\* outside the removed elements, each stripped, the empty ones dropped, in
\* their order and with repetitions, joined by one newline: no line of the
\* output is empty or begins or ends with whitespace, and the output has no
\* two newlines in a row.
C24_CleanedLines ==
    hpc \in {"links_call", "images_call", "returned"} =>
        /\ LET stripped == [k \in 1..Len(InputLines(html_content)) |->
                               strip(InputLines(html_content)[k])]
           IN  OutputLines(clean_text) = SelectSeq(stripped, LAMBDA line : line # <<>>)
        /\ \A k \in 1..Len(OutputLines(clean_text)) :
              /\ OutputLines(clean_text)[k] # <<>>
              /\ strip(OutputLines(clean_text)[k]) = OutputLines(clean_text)[k]
        /\ find(clean_text, ParagraphSep) = 0

C24_Witness ==
    /\ hpc = "returned"
    /\ Len(html_content) = 2
    /\ html_content[1].tag = "script" /\ html_content[1].text = <<"a">>
    /\ html_content[2].tag = "p" /\ ~html_content[2].removed
    /\ html_content[2].text = <<" ", "b", "\n", "\n", "c", " ">>
    /\ clean_text = <<"b", "\n", "c">>

----------------------------------------------------------------------------
(* The text of a cleaned page handed to the chunker: _clean_content, then  *)
(* _intelligent_chunking on what it returned                                *)

\* the elements that matter to _clean_content: text-bearing ones, kept or
\* removed
TextElements == {e \in Elements : e.tag \in {"p", "script"}}

InitCleanChunk ==
    /\ IdleQuality /\ IdleSite /\ IdleBatch /\ IdleSelenium
    /\ CHUNK_SIZE \in 1..MaxChunkSize
    /\ content = <<>>
    /\ instructions = <<>>
    /\ pc = "clean_call"
    /\ chunks = <<>>
    /\ results = <<>>
    /\ successful_chunks = 0
    /\ combined_result = <<>>
    /\ result = NoResult
    /\ oracle_log = <<>>
    /\ exc = "none"
    /\ html_content \in UNION {[1..n -> TextElements] : n \in 0..MaxElements}
    /\ hpc = "clean_call"
    /\ found_links = <<>>
    /\ found_images = <<>>
    /\ clean_text = <<>>

\* the page is cleaned and its text becomes the chunker's content
CleanPage ==
    /\ pc = "clean_call"
    /\ hpc = "clean_call"
    /\ clean_text' = _clean_content(html_content)
    /\ content' = clean_text'
    /\ hpc' = "returned"
    /\ pc' = "chunker_call"
    /\ UNCHANGED <<html_content, found_links, found_images>>
    /\ UNCHANGED <<CHUNK_SIZE, instructions, chunks, results, successful_chunks,
                   combined_result, result, oracle_log, exc>>
    /\ UNCHANGED <<quality_vars, site_vars, batch_vars, selenium_vars>>

NextCleanChunk == CleanPage \/ ChunkerRun

SpecCleanChunk == InitCleanChunk /\ [][NextCleanChunk]_vars

\* C28: text cleaned on the normal path holds no blank-line separator, so
\* when it is longer than the chunk size the paragraph pass sees a single
\* paragraph and the chunks returned are those of the sentence fallback.
C28_CleanedTextUsesSentenceFallback ==
    /\ pc \in {"chunker_call", "chunker_return"} => find(content, ParagraphSep) = 0
    /\ (pc = "chunker_return" /\ Len(content) > CHUNK_SIZE) =>
          /\ Len(split(content, ParagraphSep)) = 1
          /\ FallbackRuns(content)
          /\ chunks = _split_by_sentences(content)

C28_Witness ==
    /\ pc = "chunker_return"
    /\ CHUNK_SIZE = 1
    /\ Len(html_content) = 2
    /\ html_content[1].text = <<" ", "b", "\n", "\n", "c", " ">>
    /\ content = <<"b", "\n", "c", "\n", "a", ".", " ", "a">>
    /\ chunks = << <<"b", "\n", "c", "\n", "a">>, <<"a">> >>

====
